---- MODULE Spec2Model ----
(***************************************************************************)
(* S3Client (src/src/S3Client.py): a client object holding a boto3 S3      *)
(* handle, a location and an optional default container, in front of an   *)
(* S3 account (buckets holding objects).  Every method is one action; the  *)
(* provider calls it makes are operators over the account's contents.      *)
(***************************************************************************)
EXTENDS Integers, Sequences, FiniteSets, TLC

VARIABLES
    buckets,         \* names of the buckets the account owns
    objects,         \* records [bucket, key, body, meta], one per stored object
    client,          \* self.client: the boto3 handle made by the constructor
    location,        \* self.location
    container_name,  \* self.container_name: <<>> until use_container, then <<name>>
    op,              \* the last method called, with its arguments
    ret,             \* what that call returned or raised
    requests         \* the provider requests that call issued, in order

vars == <<buckets, objects, client, location, container_name, op, ret, requests>>

(***************************************************************************)
(* Bounds and input universes                                              *)
(***************************************************************************)
MaxBuckets == 2      \* buckets in the account at construction
MaxObjects == 2      \* objects in the account at construction
MaxBody    == 1      \* object bodies are 1..MaxBody (a body is known by its length)
MaxPage    == 2      \* the provider answers a listing with 1..MaxPage entries

BucketNames == {<<"a">>, <<"b">>}
Keys        == {<<"x">>, <<"a", "/", "x">>, <<"a", "/", "y">>}
Prefixes    == {<<>>, <<"a", "/">>}              \* <<>> is None (and ""): both are falsy
ContainerPrefixes == {<<>>, <<"a">>}
Delimiters  == {"", "/"}                         \* "" is None (and "")
Bodies      == 1..MaxBody
Metas       == {{}, {<<"k1", "v1">>}}            \* a dict as its set of items
Faults      == {"none", "AccessDenied", "EndpointConnectionError"}
CreateFaults == Faults \cup {"InvalidBucketName"}
UnsetErrors == {"AttributeError", "ParamValidationError"}

(***************************************************************************)
(* Python values                                                           *)
(***************************************************************************)
None      == <<>>
Some(x)   == <<x>>
Bool(b)   == [tag |-> "bool", b |-> b]
NoneRet   == [tag |-> "None"]
List(s)   == [tag |-> "list", items |-> s]
Raise(e, c) == [tag |-> "raise", exc |-> e, code |-> c]

ContainerInfo(name, date, region) ==
    [tag |-> "ContainerInfo", name |-> name, creationDate |-> date, region |-> region]

ObjectInfo(name, bytes, hash, content_type, metadata) ==
    [tag |-> "ObjectInfo", name |-> name, bytes |-> bytes, hash |-> hash,
     content_type |-> content_type, metadata |-> metadata]

SubdirInfo(prefix) == [tag |-> "SubdirInfo", prefix |-> prefix]

(***************************************************************************)
(* Strings as sequences of characters, in S3's byte order                  *)
(***************************************************************************)
Ord(c) == CASE c = "/" -> 47 [] c = "a" -> 97 [] c = "b" -> 98
            [] c = "x" -> 120 [] c = "y" -> 121 [] c = "z" -> 122

StartsWith(s, p) == Len(p) <= Len(s) /\ SubSeq(s, 1, Len(p)) = p

LexLess(s, t) ==
    \E i \in 1..(Len(s) + 1) :
        /\ i - 1 <= Len(t)
        /\ \A j \in 1..(i - 1) : s[j] = t[j]
        /\ \/ i = Len(s) + 1 /\ Len(t) >= i
           \/ i <= Len(s) /\ i <= Len(t) /\ Ord(s[i]) < Ord(t[i])

RECURSIVE SortKeys(_)
SortKeys(S) ==
    IF S = {} THEN <<>>
    ELSE LET m == CHOOSE x \in S : \A y \in S \ {x} : LexLess(x, y)
         IN <<m>> \o SortKeys(S \ {m})

RECURSIVE SubsetsUpTo(_, _)
SubsetsUpTo(S, n) ==
    IF n = 0 THEN {{}}
    ELSE LET R == SubsetsUpTo(S, n - 1)
         IN R \cup {r \cup {x} : r \in R, x \in S}

(***************************************************************************)
(* The provider: boto3's S3 calls over the account.  Each returns          *)
(* [err, resp, buckets, objects]: the exception raised (NoneRet if none),  *)
(* the response, and the account after the call.  fault is the provider's  *)
(* condition during the call: "none", or the error every request meets.    *)
(***************************************************************************)
Stored(b) == {o \in objects : o.bucket = b}
Lookup(b, k) == {o \in objects : o.bucket = b /\ o.key = k}
ETag(o) == [quoted |-> TRUE, digest |-> o.body]
Ok200 == [HTTPStatusCode |-> 200]

Answer(err, resp, bs, os) == [err |-> err, resp |-> resp, buckets |-> bs, objects |-> os]
Failed(e, c) == Answer(Raise(e, c), None, buckets, objects)
FaultOf(f) == IF f = "EndpointConnectionError" THEN Failed(f, "")
              ELSE Failed("ClientError", f)
Raised(a) == a.err # NoneRet

create_bucket(b, loc, fault) ==
    IF fault # "none" THEN FaultOf(fault)
    ELSE IF b \in buckets THEN Failed("ClientError", "BucketAlreadyOwnedByYou")
    ELSE Answer(NoneRet, Ok200, buckets \cup {b}, objects)

list_buckets(fault) ==
    IF fault # "none" THEN FaultOf(fault)
    ELSE Answer(NoneRet, [Buckets |-> SortKeys(buckets)], buckets, objects)

delete_bucket(b, fault) ==
    IF fault # "none" THEN FaultOf(fault)
    ELSE IF b \notin buckets THEN Failed("ClientError", "NoSuchBucket")
    ELSE IF Stored(b) # {} THEN Failed("ClientError", "BucketNotEmpty")
    ELSE Answer(NoneRet, Ok200, buckets \ {b}, objects)

head_bucket(b, fault) ==
    IF fault # "none" THEN FaultOf(fault)
    ELSE IF b \notin buckets THEN Failed("ClientError", "404")
    ELSE Answer(NoneRet, Ok200, buckets, objects)

head_object(b, k, fault) ==
    IF fault # "none" THEN FaultOf(fault)
    ELSE IF Lookup(b, k) = {} THEN Failed("ClientError", "404")
    ELSE LET o == CHOOSE x \in Lookup(b, k) : TRUE
         IN Answer(NoneRet,
                   [HTTPStatusCode |-> 200, ContentLength |-> o.body,
                    ContentType |-> "binary/octet-stream", ETag |-> ETag(o),
                    Metadata |-> o.meta],
                   buckets, objects)

copy_object(b, k, srcb, srck, meta, directive, fault) ==
    IF fault # "none" THEN FaultOf(fault)
    ELSE IF srcb \notin buckets \/ b \notin buckets THEN Failed("ClientError", "NoSuchBucket")
    ELSE IF Lookup(srcb, srck) = {} THEN Failed("ClientError", "NoSuchKey")
    ELSE LET o == CHOOSE x \in Lookup(srcb, srck) : TRUE
             n == [bucket |-> b, key |-> k, body |-> o.body,
                   meta |-> IF directive = "REPLACE" THEN meta ELSE o.meta]
         IN Answer(NoneRet, Ok200, buckets, (objects \ Lookup(b, k)) \cup {n})

\* One answer of list_objects_v2: the keys under the prefix in byte order, keys
\* with the delimiter after the prefix rolled up into one common prefix each,
\* cut after maxKeys entries.
FirstDelim(k, prefix, delimiter) ==
    LET at == {i \in (Len(prefix) + 1)..Len(k) : k[i] = delimiter}
    IN IF delimiter = "" \/ at = {} THEN 0
       ELSE CHOOSE i \in at : \A j \in at : i <= j

EntryOf(k, prefix, delimiter) ==
    LET i == FirstDelim(k, prefix, delimiter)
    IN IF i = 0 THEN [cp |-> FALSE, s |-> k] ELSE [cp |-> TRUE, s |-> SubSeq(k, 1, i)]

\* Keys come in byte order, so the keys of one common prefix are adjacent.
RollInto(e, rest) == IF rest # <<>> /\ Head(rest) = e THEN rest ELSE <<e>> \o rest

RECURSIVE Rollup(_, _, _)
Rollup(ks, prefix, delimiter) ==
    IF ks = <<>> THEN <<>>
    ELSE RollInto(EntryOf(Head(ks), prefix, delimiter),
                  Rollup(Tail(ks), prefix, delimiter))

IsCommonPrefix(e) == e.cp
IsContent(e) == ~e.cp

ContentOf(b, k) ==
    LET o == CHOOSE x \in Lookup(b, k) : TRUE
    IN [Key |-> k, Size |-> o.body, ETag |-> ETag(o)]

ListResponse(b, cs, ps, truncated) ==
    Answer(NoneRet,
           [HTTPStatusCode |-> 200,
            Contents |-> [i \in 1..Len(cs) |-> ContentOf(b, cs[i].s)],
            CommonPrefixes |-> [i \in 1..Len(ps) |-> [Prefix |-> ps[i].s]],
            IsTruncated |-> truncated],
           buckets, objects)

ListAnswer(b, page, truncated) ==
    ListResponse(b, SelectSeq(page, IsContent), SelectSeq(page, IsCommonPrefix), truncated)

ListPage(b, all, maxKeys) ==
    ListAnswer(b, SubSeq(all, 1, IF Len(all) < maxKeys THEN Len(all) ELSE maxKeys),
               Len(all) > maxKeys)

list_objects_v2(b, prefix, delimiter, maxKeys, fault) ==
    IF fault # "none" THEN FaultOf(fault)
    ELSE IF b \notin buckets THEN Failed("ClientError", "NoSuchBucket")
    ELSE ListPage(b, Rollup(SortKeys({o.key : o \in {x \in Stored(b) :
                                                        StartsWith(x.key, prefix)}}),
                            prefix, delimiter),
                  maxKeys)

(***************************************************************************)
(* State after construction: the client in front of an arbitrary account   *)
(***************************************************************************)
Accounts ==
    UNION { UNION { { [bs |-> bs,
                       os |-> { [bucket |-> p[1], key |-> p[2],
                                 body |-> f[p][1], meta |-> f[p][2]] : p \in K }] :
                      f \in [K -> Bodies \X Metas] } :
                    K \in SubsetsUpTo(bs \X Keys, MaxObjects) } :
            bs \in SubsetsUpTo(BucketNames, MaxBuckets) }

NoOp == [name |-> "__init__", container |-> None, force |-> FALSE, key |-> None,
         meta |-> {}, prefix |-> <<>>, delimiter |-> "", fetch_metadata |-> FALSE,
         fault |-> "none"]

Init ==
    /\ \E acc \in Accounts : buckets = acc.bs /\ objects = acc.os
    /\ client = "boto3.client('s3')"
    /\ location = "us-west-2"
    /\ container_name = None
    /\ op = NoOp
    /\ ret = NoneRet
    /\ requests = <<>>

(***************************************************************************)
(* Container methods                                                       *)
(***************************************************************************)
Req(api, b, k) == [api |-> api, bucket |-> b, key |-> k]

container_create(name, fault) ==
    LET a == create_bucket(name, location, fault) IN
    /\ op' = [NoOp EXCEPT !.name = "container_create", !.container = Some(name),
                          !.fault = fault]
    /\ requests' = <<Req("create_bucket", Some(name), None)>>
    /\ ret' = IF Raised(a) THEN Bool(FALSE) ELSE Bool(TRUE)
    /\ buckets' = a.buckets
    /\ objects' = a.objects
    /\ UNCHANGED <<client, location, container_name>>

container_list(prefix, fault) ==
    LET a == list_buckets(fault) IN
    /\ op' = [NoOp EXCEPT !.name = "container_list", !.prefix = prefix, !.fault = fault]
    /\ requests' = <<Req("list_buckets", None, None)>>
    /\ ret' = IF Raised(a) THEN a.err
              ELSE List([i \in 1..Len(a.resp.Buckets) |->
                            ContainerInfo(a.resp.Buckets[i], None, None)])
    /\ UNCHANGED <<buckets, objects, client, location, container_name>>

container_delete(name, force, fault) ==
    LET a == delete_bucket(name, fault) IN
    /\ op' = [NoOp EXCEPT !.name = "container_delete", !.container = Some(name),
                          !.force = force, !.fault = fault]
    /\ requests' = <<Req("delete_bucket", Some(name), None)>>
    /\ ret' = IF Raised(a) THEN Bool(FALSE) ELSE Bool(TRUE)
    /\ buckets' = a.buckets
    /\ objects' = a.objects
    /\ UNCHANGED <<client, location, container_name>>

container_info(name, fault) ==
    LET a == head_bucket(name, fault) IN
    /\ op' = [NoOp EXCEPT !.name = "container_info", !.container = Some(name),
                          !.fault = fault]
    /\ requests' = <<Req("head_bucket", Some(name), None)>>
    /\ ret' = IF Raised(a) THEN a.err
              ELSE IF a.resp.HTTPStatusCode = 200 THEN ContainerInfo(name, None, None)
              ELSE NoneRet
    /\ UNCHANGED <<buckets, objects, client, location, container_name>>

(***************************************************************************)
(* Object methods                                                          *)
(***************************************************************************)
use_container(name) ==
    /\ op' = [NoOp EXCEPT !.name = "use_container", !.container = Some(name)]
    /\ requests' = <<>>
    /\ ret' = NoneRet
    /\ container_name' = Some(name)
    /\ UNCHANGED <<buckets, objects, client, location>>

Unquote(etag) == [etag EXCEPT !.quoted = FALSE]

\* object_info as a call: [ret, reqs].  unset is what reading self.container_name
\* raises while no container has been selected.
object_info_call(object_name, fault, unset) ==
    IF container_name = None THEN [ret |-> Raise(unset, ""), reqs |-> <<>>]
    ELSE LET b == container_name[1]
             a == head_object(b, object_name, fault)
         IN [ret |-> IF Raised(a) THEN a.err
                     ELSE IF a.resp.HTTPStatusCode = 200
                          THEN ObjectInfo(object_name, Some(a.resp.ContentLength),
                                          Some(Unquote(a.resp.ETag)),
                                          Some(a.resp.ContentType),
                                          Some(a.resp.Metadata))
                          ELSE NoneRet,
             reqs |-> <<Req("head_object", Some(b), Some(object_name))>>]

object_info(object_name, fault, unset) ==
    LET c == object_info_call(object_name, fault, unset) IN
    /\ op' = [NoOp EXCEPT !.name = "object_info", !.key = Some(object_name),
                          !.fault = fault]
    /\ requests' = c.reqs
    /\ ret' = c.ret
    /\ UNCHANGED <<buckets, objects, client, location, container_name>>

\* The same call without the REPLACE directive: S3 then copies the old metadata.
object_replace_metadata_copy(object_name, meta, fault, unset) ==
    /\ op' = [NoOp EXCEPT !.name = "object_replace_metadata", !.key = Some(object_name),
                          !.meta = meta, !.fault = fault]
    /\ IF container_name = None
       THEN /\ requests' = <<>>
            /\ ret' = Raise(unset, "")
            /\ UNCHANGED <<buckets, objects>>
       ELSE LET b == container_name[1]
                a == copy_object(b, object_name, b, object_name, meta, "COPY", fault)
            IN /\ requests' = <<Req("copy_object", Some(b), Some(object_name))>>
               /\ ret' = IF Raised(a) THEN a.err ELSE Bool(a.resp.HTTPStatusCode = 200)
               /\ buckets' = a.buckets
               /\ objects' = a.objects
    /\ UNCHANGED <<client, location, container_name>>

object_replace_metadata(object_name, meta, fault, unset) ==
    /\ op' = [NoOp EXCEPT !.name = "object_replace_metadata", !.key = Some(object_name),
                          !.meta = meta, !.fault = fault]
    /\ IF container_name = None
       THEN /\ requests' = <<>>
            /\ ret' = Raise(unset, "")
            /\ UNCHANGED <<buckets, objects>>
       ELSE LET b == container_name[1]
                a == copy_object(b, object_name, b, object_name, meta, "REPLACE", fault)
            IN /\ requests' = <<Req("copy_object", Some(b), Some(object_name))>>
               /\ ret' = IF Raised(a) THEN a.err ELSE Bool(a.resp.HTTPStatusCode = 200)
               /\ buckets' = a.buckets
               /\ objects' = a.objects
    /\ UNCHANGED <<client, location, container_name>>

NotImplemented(name, key, container, meta) ==
    /\ op' = [NoOp EXCEPT !.name = name, !.key = key, !.container = container,
                          !.meta = meta]
    /\ requests' = <<>>
    /\ ret' = Raise("NotImplementedError", "")
    /\ UNCHANGED <<buckets, objects, client, location, container_name>>

object_set_metadata(object_name, key, value) ==
    NotImplemented("object_set_metadata", Some(object_name), None, {<<key, value>>})

object_delete_metadata(object_name, key) ==
    NotImplemented("object_delete_metadata", Some(object_name), None, {<<key, "">>})

object_upload(stream, object_name, meta) ==
    NotImplemented("object_upload", Some(object_name), None, meta)

object_download(object_name, stream) ==
    NotImplemented("object_download", Some(object_name), None, {})

\* object_delete as an implementation would be: one delete_object request.
object_delete_removes(object_name, container) ==
    LET c == IF container = None THEN container_name ELSE container IN
    /\ op' = [NoOp EXCEPT !.name = "object_delete", !.key = Some(object_name),
                          !.container = container]
    /\ requests' = IF c = None THEN <<>> ELSE <<Req("delete_object", c, Some(object_name))>>
    /\ ret' = IF c = None THEN Raise("AttributeError", "") ELSE Bool(TRUE)
    /\ objects' = IF c = None THEN objects ELSE objects \ Lookup(c[1], object_name)
    /\ UNCHANGED <<buckets, client, location, container_name>>

object_delete(object_name, container) ==
    NotImplemented("object_delete", Some(object_name), container, {})

\* The loop of object_list over objects[i..]: it stops at the first object_info
\* that raises.
RECURSIVE FetchAll(_, _, _, _)
FetchJoin(c, r) == [ret |-> r.ret, reqs |-> c.reqs \o r.reqs]

FetchNext(c, objs, i, fault, unset) ==
    IF c.ret.tag = "raise" THEN c
    ELSE FetchJoin(c, FetchAll([objs EXCEPT ![i] = c.ret], i + 1, fault, unset))

FetchAll(objs, i, fault, unset) ==
    IF i > Len(objs) THEN [ret |-> List(objs), reqs |-> <<>>]
    ELSE FetchNext(object_info_call(objs[i].name, fault, unset), objs, i, fault, unset)

ListedInfo(c) == ObjectInfo(c.Key, Some(c.Size), Some(c.ETag), None, None)

ListResult(f, subdirs, rq) ==
    IF f.ret.tag = "raise" THEN [ret |-> f.ret, reqs |-> rq \o f.reqs]
    ELSE [ret |-> List(f.ret.items \o subdirs), reqs |-> rq \o f.reqs]

ListFrom(a, rq, fetch_metadata, fault, unset) ==
    IF Raised(a) THEN [ret |-> a.err, reqs |-> rq]
    ELSE IF a.resp.HTTPStatusCode = 200
    THEN ListResult(IF fetch_metadata
                    THEN FetchAll([i \in 1..Len(a.resp.Contents) |->
                                     ListedInfo(a.resp.Contents[i])], 1, fault, unset)
                    ELSE [ret |-> List([i \in 1..Len(a.resp.Contents) |->
                                          ListedInfo(a.resp.Contents[i])]),
                          reqs |-> <<>>],
                    [i \in 1..Len(a.resp.CommonPrefixes) |->
                        SubdirInfo(a.resp.CommonPrefixes[i].Prefix)],
                    rq)
    ELSE [ret |-> List(<<>>), reqs |-> rq]

ListIn(b, fetch_metadata, prefix, delimiter, maxKeys, fault, unset) ==
    ListFrom(list_objects_v2(b, prefix, delimiter, maxKeys, fault),
             <<Req("list_objects_v2", Some(b), None)>>, fetch_metadata, fault, unset)

object_list_call(fetch_metadata, prefix, delimiter, container, maxKeys, fault, unset) ==
    IF container = None /\ container_name = None
    THEN [ret |-> Raise(unset, ""), reqs |-> <<>>]
    ELSE ListIn(IF container = None THEN container_name[1] ELSE container[1],
                fetch_metadata, prefix, delimiter, maxKeys, fault, unset)

object_list(fetch_metadata, prefix, delimiter, container, maxKeys, fault, unset) ==
    \E c \in {object_list_call(fetch_metadata, prefix, delimiter, container, maxKeys,
                                fault, unset)} :
        /\ op' = [NoOp EXCEPT !.name = "object_list", !.fetch_metadata = fetch_metadata,
                              !.prefix = prefix, !.delimiter = delimiter,
                              !.container = container, !.fault = fault]
        /\ requests' = c.reqs
        /\ ret' = c.ret
        /\ UNCHANGED <<buckets, objects, client, location, container_name>>

UnsetNow == IF container_name = None THEN UnsetErrors ELSE {"AttributeError"}
Containers == {None} \cup {Some(n) : n \in BucketNames}
MetaKeys == {"k1"}
MetaVals == {"v1"}
Streams == {"stream"}

\* The container methods.
NextContainer ==
    \/ \E n \in BucketNames, f \in CreateFaults : container_create(n, f)
    \/ \E p \in ContainerPrefixes, f \in Faults : container_list(p, f)
    \/ \E n \in BucketNames, force \in BOOLEAN, f \in Faults : container_delete(n, force, f)
    \/ \E n \in BucketNames, f \in Faults : container_info(n, f)

\* Selecting a default container and listing.
NextListing ==
    \/ \E n \in BucketNames : use_container(n)
    \/ \E fm \in BOOLEAN, p \in Prefixes, d \in Delimiters, c \in Containers,
          mk \in 1..MaxPage, f \in Faults, u \in UnsetNow :
          object_list(fm, p, d, c, mk, f, u)

\* Selecting a default container and the metadata methods.
NextMetadata ==
    \/ \E n \in BucketNames : use_container(n)
    \/ \E k \in Keys, f \in Faults, u \in UnsetNow : object_info(k, f, u)
    \/ \E k \in Keys, m \in Metas, f \in Faults, u \in UnsetNow :
          object_replace_metadata(k, m, f, u)

\* Selecting a default container and the methods the backend leaves unimplemented.
NextUnsupported ==
    \/ \E n \in BucketNames : use_container(n)
    \/ \E k \in Keys, mk \in MetaKeys, mv \in MetaVals : object_set_metadata(k, mk, mv)
    \/ \E k \in Keys, mk \in MetaKeys : object_delete_metadata(k, mk)
    \/ \E st \in Streams, k \in Keys, m \in Metas : object_upload(st, k, m)
    \/ \E k \in Keys, st \in Streams : object_download(k, st)
    \/ \E k \in Keys, c \in Containers : object_delete(k, c)

Next == NextContainer \/ NextListing \/ NextMetadata \/ NextUnsupported

\* The whole client.
Spec == Init /\ [][Next]_vars

\* No method reads op, ret or requests, and every account a method can leave
\* behind is an account of Init, so each group of methods is also checked alone.
SpecContainer == Init /\ [][NextContainer]_vars
SpecListing == Init /\ [][NextListing]_vars
SpecMetadata == Init /\ [][NextMetadata]_vars
SpecUnsupported == Init /\ [][NextUnsupported]_vars

(***************************************************************************)
(* Properties                                                              *)
(***************************************************************************)
Called(n) == op.name = n
Arg == IF op.container = None THEN <<>> ELSE op.container[1]
\* the container an object_list call is about: the explicit one, else the default
Target == IF op.container = None THEN container_name ELSE op.container
ItemNames(tag) == {ret.items[i].name : i \in {j \in 1..Len(ret.items) : ret.items[j].tag = tag}}

\* C1: container_delete returns True whenever the container is absent afterwards,
\* in particular when it did not exist before the call (the provider being
\* reachable); it never returns False for the already-absent case.
C1_DeleteAbsentReturnsTrue ==
    (Called("container_delete") /\ op.fault = "none" /\ Arg \notin buckets)
        => ret = Bool(TRUE)

\* C2: container_create returns False only when the container already exists;
\* every other provider failure surfaces as an error, not as False; on True the
\* container exists afterwards.
C2_CreateFalseOnlyWhenExists ==
    Called("container_create") =>
        /\ ret = Bool(FALSE) => (op.fault = "none" /\ Arg \in buckets)
        /\ op.fault # "none" => ret.tag = "raise"
        /\ ret = Bool(TRUE) => Arg \in buckets

\* C3: container_delete honours force: on a container holding at least one
\* object, force=False fails and leaves the container and its objects unchanged,
\* while force=True removes every object and the container and returns True.
C3_DeleteHonoursForce ==
    [][(op'.name = "container_delete" /\ op'.fault = "none"
           /\ Stored(op'.container[1]) # {}) =>
        IF op'.force
        THEN /\ ret' = Bool(TRUE)
             /\ buckets' = buckets \ {op'.container[1]}
             /\ objects' = objects \ Stored(op'.container[1])
        ELSE /\ ret' # Bool(TRUE)
             /\ UNCHANGED <<buckets, objects>>
    ]_vars

\* C4: object_list without prefix or delimiter returns exactly one entry per
\* stored key of the container, whatever page size the provider answers with.
C4_ListComplete ==
    (Called("object_list") /\ op.prefix = <<>> /\ op.delimiter = ""
        /\ ~op.fetch_metadata /\ ret.tag = "list")
        => /\ ItemNames("ObjectInfo") = {o.key : o \in Stored(Target[1])}
           /\ Len(ret.items) = Cardinality(Stored(Target[1]))

\* C5: every provider request of an object_list call with an explicit container
\* goes to that container, never to the default one.
C5_ExplicitContainerOverrides ==
    (Called("object_list") /\ op.container # None)
        => \A i \in 1..Len(requests) : requests[i].bucket = op.container

\* C6: container_info returns the not-found outcome (None), not an exception,
\* for an absent container; a ContainerInfo of the requested name for an
\* existing one; and an error that is neither for a permission or network failure.
C6_InfoDistinguishesAbsence ==
    Called("container_info") =>
        /\ (op.fault = "none" /\ Arg \notin buckets) => ret = NoneRet
        /\ (op.fault = "none" /\ Arg \in buckets) => ret = ContainerInfo(Arg, None, None)
        /\ op.fault # "none" => ret.tag = "raise"

\* C8: container_list(prefix) returns exactly one ContainerInfo per container
\* whose name starts with prefix, and no other.
C8_ListFiltersByPrefix ==
    (Called("container_list") /\ ret.tag = "list")
        => /\ ItemNames("ContainerInfo") = {b \in buckets : StartsWith(b, op.prefix)}
           /\ Len(ret.items) = Cardinality({b \in buckets : StartsWith(b, op.prefix)})

\* C9: object_list with a delimiter is a single-level listing: each key under
\* the prefix is represented exactly once, by its ObjectInfo or by the one
\* SubdirInfo of its common prefix, and with fetch_metadata=True each ObjectInfo
\* is the enriched info of the listed object (never None, never an exception).
Enriched(o) ==
    ObjectInfo(o.key, Some(o.body), Some(Unquote(ETag(o))),
               Some("binary/octet-stream"), Some(o.meta))
Listed(o) == ObjectInfo(o.key, Some(o.body), Some(ETag(o)), None, None)

C9_SingleLevelListing ==
    (Called("object_list") /\ op.delimiter # "" /\ op.fault = "none"
        /\ container_name # None /\ Target[1] \in buckets)
        => LET under == {o \in Stored(Target[1]) : StartsWith(o.key, op.prefix)}
               direct == {o \in under : ~EntryOf(o.key, op.prefix, op.delimiter).cp}
               groups == {EntryOf(o.key, op.prefix, op.delimiter).s : o \in under \ direct}
               want == {IF op.fetch_metadata THEN Enriched(o) ELSE Listed(o) : o \in direct}
                           \cup {SubdirInfo(g) : g \in groups}
           IN /\ ret.tag = "list"
              /\ {ret.items[i] : i \in 1..Len(ret.items)} = want
              /\ Len(ret.items) = Cardinality(want)

\* C7: object_replace_metadata on an existing object (the provider serving the
\* request) makes its metadata exactly meta, keeps its body, key and container
\* and every other object, and returns True; on a missing object it raises,
\* returns nothing and creates no object; a provider fault changes nothing.
C7_ReplaceMetadata ==
    [][op'.name = "object_replace_metadata" =>
        LET k == op'.key[1]
            old == IF container_name = None THEN {} ELSE Lookup(container_name[1], k)
        IN /\ buckets' = buckets
           /\ (old # {} /\ op'.fault = "none") =>
                 /\ ret' = Bool(TRUE)
                 /\ objects' = (objects \ old) \cup
                                 {[o EXCEPT !.meta = op'.meta] : o \in old}
           /\ (old = {} \/ op'.fault # "none") =>
                 /\ ret'.tag = "raise"
                 /\ objects' = objects
    ]_vars

C7_Witness ==
    /\ Called("object_replace_metadata")
    /\ ret = Bool(TRUE)
    /\ op.meta = {}
    /\ container_name # None
    /\ \E o \in Lookup(container_name[1], op.key[1]) : o.meta = {}
    /\ Cardinality(objects) > 1

\* C10: every unimplemented method raises NotImplementedError on every call,
\* issues no provider request and leaves the account and the client unchanged.
UnsupportedOps == {"object_set_metadata", "object_delete_metadata", "object_upload",
                   "object_download", "object_delete"}

C10_UnsupportedRaises ==
    [][op'.name \in UnsupportedOps =>
        /\ ret' = Raise("NotImplementedError", "")
        /\ requests' = <<>>
        /\ UNCHANGED <<buckets, objects, client, location, container_name>>
    ]_vars

C10_Witness ==
    /\ Called("object_delete")
    /\ ret = Raise("NotImplementedError", "")
    /\ container_name # None
    /\ Lookup(container_name[1], op.key[1]) # {}
====
